---- MODULE Spec2Model ----
(***************************************************************************)
(* Document classification workflow (src/workflow/graph.py) and the agents *)
(* it drives (src/agents/*.py).                                            *)
(*                                                                         *)
(* One run of DocumentClassificationWorkflow.process_document is modelled  *)
(* as the graph engine executes it: in supersteps.  Every node scheduled   *)
(* in a superstep reads the state as it was when the superstep began, the  *)
(* nodes of a superstep run in any order, and the dicts they return are    *)
(* merged into the state when all of them have finished; the nodes reached *)
(* by the edges of the finished nodes form the next superstep.             *)
(*                                                                         *)
(* Python dicts are functions whose DOMAIN holds the keys present, so that *)
(* dict.get(key, default) is Get.  Confidences are numbers in thousandths  *)
(* (1.0 is 1000), wrapped so that a JSON reply may also carry a value that *)
(* is no number.                                                           *)
(*                                                                         *)
(* Further specifications stand beside the run.        CallSpec calls one  *)
(* agent method on its own (the keyword fallback on a text, the text       *)
(* classifier, the vision node) and records what it returned and which     *)
(* backend calls it made.  FilerSpec is the file server of src/mcp with    *)
(* its clients: the requests are in flight together, the server's event    *)
(* loop runs one handler at a time.  FairSpec is the run under the graph   *)
(* engine's scheduling, for termination.  TaskSpec is the documents API    *)
(* (src/api/routes/documents.py) with the workers that execute             *)
(* process_document_task, BatchSpec one process_batch_task                 *)
(* (src/tasks/celery_app.py), FairBatchSpec that task on its worker.       *)
(***************************************************************************)
EXTENDS Integers, Sequences, FiniteSets, TLC

VARIABLES
    pc,           \* position of process_document: "init", "running", "returned"
    fileExists,   \* whether the source path exists on disk (environment)
    state,        \* the DocumentState dict of the run
    active,       \* nodes scheduled in the current superstep that have not run yet
    writes,       \* node -> dict returned by the node, for nodes that ran in this superstep
    runs,         \* node -> number of times the node body has executed in this run
    arbiter,      \* the outcome of the router's LLM chain in this run, kind "not_called" before
    filer,        \* what the file server did in this run: "none", "folder_failed", "copy_failed", "placed"
    result,       \* the dict process_document returned (empty before it returns)
    input,        \* the arguments of an agent method called on its own
    output,       \* what that call returned and which backend calls it made
    folder,       \* the domain folder of the file server: file name -> content
    uploads,      \* the source files of the clients: client -> content, for the files that exist
    req,          \* client -> its placement request and the position of the request's handler
    loop,         \* the client whose handler the server's event loop is running, 0 for none
    docs,         \* the documents table: id -> the row's status and retry_count
    queue,        \* the broker's queue of process_document tasks: document ids
    worker,       \* worker -> the position of the process_document_task it runs
    sent,         \* number of upload, process and retry requests served so far
    file_paths,   \* the file paths handed to process_batch_task: whether each file exists
    batch,        \* the row of the batch in processing_batches, "absent" when deleted
    bdocs,        \* the rows process_batch_task created: file index -> status and session state
    bt            \* the locals of process_batch_task and its position

\* the variables of a call of one agent method on its own
callVars == <<input, output>>

\* the variables of a run of process_document
runVars == <<pc, fileExists, state, active, writes, runs, arbiter, filer, result>>

\* the variables of the file server and its clients
filerVars == <<folder, uploads, req, loop>>

\* the variables of the documents API and the process_document workers
taskVars == <<docs, queue, worker, sent>>

\* the variables of one process_batch_task
batchVars == <<file_paths, batch, bdocs, bt>>

vars == <<runVars, callVars, filerVars, taskVars, batchVars>>

-----------------------------------------------------------------------------
(* Bounds of the model *)

\* vision replies mention trigger words of the first MaxVisionDomains domains only
MaxVisionDomains == 4
\* a text contains at most MaxKwHits keywords of each scored domain
MaxKwHits == 1
\* a text handed to the keyword fallback on its own has at most MaxFragments fragments
MaxFragments == 2
\* the vision agent called on its own is handed at most MaxImages preview images
MaxImages == 2
\* MaxClients pipeline instances send a placement request to the file server
MaxClients == 2
\* at most MaxDocs documents are uploaded
MaxDocs == 2
\* at most MaxRequests upload, process and retry requests are served
MaxRequests == 4
\* MaxWorkers worker processes execute process_document tasks
MaxWorkers == 2
\* a batch holds at most MaxFiles file paths
MaxFiles == 3

-----------------------------------------------------------------------------
(* Dicts and JSON values *)

Get(d, k, default) == IF k \in DOMAIN d THEN d[k] ELSE default

EmptyDict == [k \in {} |-> 0]

\* no method has been called on its own
NoCall == [kind |-> "none"]

NotCalled == [kind |-> "not_called"]

\* no agent method is called on its own
NoCalls == input = NoCall /\ output = NoCall

\* the file server is not in use
NoRequests == folder = EmptyDict /\ uploads = EmptyDict /\ req = EmptyDict /\ loop = 0

\* no document has been uploaded and no task is queued or running
NoTasks == docs = EmptyDict /\ queue = <<>> /\ worker = EmptyDict /\ sent = 0

\* no batch task exists
NoBatch == file_paths = <<>> /\ batch = EmptyDict /\ bdocs = EmptyDict /\ bt = EmptyDict

IsEmpty(d) == DOMAIN d = {}

\* a JSON number n/1000
Num(n) == [num |-> TRUE, v |-> n]

\* a JSON value that is no number (null, a string): comparing it with a float
\* or formatting it with :.2f raises
NotNum == [num |-> FALSE, v |-> 0]

One == 1000

Min(a, b) == IF a < b THEN a ELSE b

\* s[:n]
Prefix(s, n) == SubSeq(s, 1, Min(n, Len(s)))

SeqToSet(s) == {s[i] : i \in 1..Len(s)}

-----------------------------------------------------------------------------
(* The domain catalog *)

\* the keys of DOMAIN_KEYWORDS, in declaration order
CatalogDomains ==
    <<"finance", "law", "science", "technology", "healthcare",
      "education", "business", "engineering", "arts">>

\* the ten domain tags: the catalog and "general"
DomainTags == SeqToSet(CatalogDomains) \cup {"general"}

\* the keys of domains_map in _parse_vision_response, in declaration order
VisionDomains ==
    <<"finance", "law", "science", "technology", "healthcare",
      "education", "business", "engineering">>

-----------------------------------------------------------------------------
(* Agent results: what BaseAgent.execute makes of BaseAgent.process *)

Returned(r) == [raised |-> FALSE, result |-> r]

Raised(e) == [raised |-> TRUE, error |-> e]

\* BaseAgent.execute: the result of process wrapped with success=True, an
\* exception of process turned into success=False with the error string
Execute(p) ==
    IF p.raised
    THEN [success |-> FALSE, error |-> p.error]
    ELSE [success |-> TRUE, result |-> p.result]

-----------------------------------------------------------------------------
(* VisionAnalysisAgent *)

\* the vision replies of the model: the set of domains of domains_map that have
\* a trigger word in the reply text
VisionReplies == SUBSET {VisionDomains[i] : i \in 1..Min(MaxVisionDomains, Len(VisionDomains))}

\* the parse with the confidence taken from the hints that are returned
ParseVisionResponseCutFirst(hits) ==
    LET domain_hints == Prefix(SelectSeq(VisionDomains, LAMBDA d : d \in hits), 3)
    IN  [visual_domain_hints |-> domain_hints,
         confidence |-> Num(Min(Len(domain_hints) * 250, One))]

\* _parse_vision_response: hits in the order of domains_map, the confidence from
\* the number of hits, the hints cut to three.  (document_type, has_tables,
\* has_charts, layout_type and raw_analysis only feed the arbiter's prompt.)
ParseVisionResponse(hits) ==
    LET domain_hints == SelectSeq(VisionDomains, LAMBDA d : d \in hits)
    IN  [visual_domain_hints |-> Prefix(domain_hints, 3),
         confidence |-> Num(Min(Len(domain_hints) * 250, One))]

\* the record returned without calling the backend when there is no preview image
VisionNoImages == [visual_domain_hints |-> <<>>, confidence |-> Num(0)]

\* _analyze_image: the backend call raises, or its reply is parsed
AnalyzeImage(backend) ==
    IF backend.kind = "raise"
    THEN [visual_domain_hints |-> <<>>, confidence |-> Num(0), error |-> "vision backend error"]
    ELSE ParseVisionResponse(backend.hits)

\* process without the check for preview images
VisionProcessUnguarded(preview_images, backend) == Returned(AnalyzeImage(backend))

\* VisionAnalysisAgent.process
VisionProcess(preview_images, backend) ==
    IF preview_images = 0
    THEN Returned(VisionNoImages)
    ELSE Returned(AnalyzeImage(backend))

\* the images process hands to the backend, by their index in preview_images:
\* none, or the first (preview_images[0])
VisionBackendCalls(preview_images) == IF preview_images = 0 THEN <<>> ELSE <<1>>

\* the outcomes of the vision backend call
VisionBackends == {[kind |-> "raise"]} \cup {[kind |-> "reply", hits |-> h] : h \in VisionReplies}

-----------------------------------------------------------------------------
(* TextClassificationAgent *)

\* the domains whose keywords the texts of the model contain
KwDomains == {"finance", "law"}

\* the texts of the model: whether the stripped text has at least 50 characters,
\* and for every catalog domain the number of its keywords that occur in the text
Texts ==
    {[long |-> l, hits |-> [d \in SeqToSet(CatalogDomains) |-> IF d \in KwDomains THEN h[d] ELSE 0]] :
        l \in BOOLEAN, h \in [KwDomains -> 0..MaxKwHits]}

\* text_content before intake has written it: ""
EmptyText == [long |-> FALSE, hits |-> [d \in SeqToSet(CatalogDomains) |-> 0]]

\* index of a domain in the catalog
CatalogIndex(d) == CHOOSE i \in 1..Len(CatalogDomains) : CatalogDomains[i] = d

\* the sort with equal scores in reverse catalog order, as sorting ascending
\* and reversing the list gives
SortedDomainsTiesReversed(score) ==
    LET Before(e, d) == \/ score[e] > score[d]
                        \/ score[e] = score[d] /\ CatalogIndex(e) > CatalogIndex(d)
        Pos(d) == 1 + Cardinality({e \in SeqToSet(CatalogDomains) : Before(e, d)})
    IN  [i \in 1..Len(CatalogDomains) |-> CHOOSE d \in SeqToSet(CatalogDomains) : Pos(d) = i]

\* sorted(domain_scores.items(), key=score, reverse=True): descending by score,
\* equal scores in catalog order (the sort is stable)
SortedDomains(score) ==
    LET Before(e, d) == \/ score[e] > score[d]
                        \/ score[e] = score[d] /\ CatalogIndex(e) < CatalogIndex(d)
        Pos(d) == 1 + Cardinality({e \in SeqToSet(CatalogDomains) : Before(e, d)})
    IN  [i \in 1..Len(CatalogDomains) |-> CHOOSE d \in SeqToSet(CatalogDomains) : Pos(d) = i]

RECURSIVE SumScores(_, _)
SumScores(score, ds) ==
    IF ds = {} THEN 0
    ELSE LET d == CHOOSE x \in ds : TRUE IN score[d] + SumScores(score, ds \ {d})

\* the classification with the quotient of the scores left uncapped
KeywordBasedClassificationUncapped(text) ==
    LET sorted_domains == SortedDomains(text.hits)
        primary_domain == sorted_domains[1]
        primary_score  == text.hits[primary_domain]
        total_score    == SumScores(text.hits, SeqToSet(CatalogDomains))
    IN  IF primary_score = 0
        THEN [primary_domain |-> "general", confidence |-> Num(300),
              alternative_domains |-> <<>>, method |-> "keyword_fallback"]
        ELSE [primary_domain |-> primary_domain,
              confidence |-> Num((primary_score * One) \div total_score),
              alternative_domains |-> SubSeq(sorted_domains, 2, 3),
              method |-> "keyword_fallback"]

\* _keyword_based_classification, from the per-domain scores on: the quotient
\* primary_score / total_score is kept in thousandths, rounded down.
\* (reasoning and keywords only feed the arbiter's prompt.)
KeywordBasedClassification(text) ==
    LET sorted_domains == SortedDomains(text.hits)
        primary_domain == sorted_domains[1]
        primary_score  == text.hits[primary_domain]
        total_score    == SumScores(text.hits, SeqToSet(CatalogDomains))
    IN  IF primary_score = 0
        THEN [primary_domain |-> "general", confidence |-> Num(300),
              alternative_domains |-> <<>>, method |-> "keyword_fallback"]
        ELSE [primary_domain |-> primary_domain,
              confidence |-> Num(Min((primary_score * One) \div total_score, 850)),
              alternative_domains |-> SubSeq(sorted_domains, 2, 3),
              method |-> "keyword_fallback"]

\* the confidences an LLM reply of the model may carry
ReplyConfidences == {Num(600), Num(650), Num(700), Num(850), Num(1500), NotNum}

\* the domain tags an LLM reply of the model may carry; "medicine" is no catalog tag
ReplyDomains == {"finance", "law", "medicine"}

\* the outcomes of the text chain: the call raises, the parsed JSON is no
\* object, or it is an object with some of the keys
TextBackends ==
    {[kind |-> "raise"], [kind |-> "not_dict"], [kind |-> "dict", reply |-> EmptyDict]}
    \cup {[kind |-> "dict", reply |-> [primary_domain |-> d, confidence |-> c]] :
            d \in ReplyDomains, c \in ReplyConfidences}

\* _llm_classification: the chain's exception, and the AttributeError of
\* result.get on a reply that is no dict, are re-raised
LlmClassification(backend) ==
    IF backend.kind # "dict"
    THEN Raised("llm error")
    ELSE Returned([primary_domain |-> Get(backend.reply, "primary_domain", "general"),
                   confidence |-> Get(backend.reply, "confidence", Num(500)),
                   alternative_domains |-> <<>>,
                   method |-> "llm"])

\* process with the exception of the LLM classification passed on
TextProcessPropagating(text_content, backend) ==
    IF ~text_content.long
    THEN Returned(KeywordBasedClassification(text_content))
    ELSE LlmClassification(backend)

\* TextClassificationAgent.process
TextProcess(text_content, backend) ==
    IF ~text_content.long
    THEN Returned(KeywordBasedClassification(text_content))
    ELSE LET r == LlmClassification(backend)
         IN  IF r.raised
             THEN Returned(KeywordBasedClassification(text_content))
             ELSE r

\* the length of a text and the length of text.strip(), for the texts handed
\* to process on its own
TextLengths == {<<0, 0>>, <<49, 49>>, <<60, 40>>, <<50, 50>>, <<8000, 8000>>, <<9000, 8990>>}

\* those texts: long says whether "not text_content or
\* len(text_content.strip()) < 50" is false; a blank text holds no keyword
SizedTexts ==
    {[len |-> l[1], stripped |-> l[2], long |-> l[2] >= 50,
      hits |-> [d \in SeqToSet(CatalogDomains) |-> IF d \in KwDomains /\ l[2] > 0 THEN h[d] ELSE 0]] :
        l \in TextLengths, h \in [KwDomains -> 0..MaxKwHits]}

\* what process hands to the chain: nothing, or text_sample = text_content[:8000]
TextChainCall(text_content) ==
    IF ~text_content.long
    THEN NotCalled
    ELSE [kind |-> "called", sample |-> Min(text_content.len, 8000)]

-----------------------------------------------------------------------------
(* The keyword fallback on the text itself *)

\* DOMAIN_KEYWORDS: the keyword list of every catalog domain
DomainKeywords ==
    [finance |->
        <<"financial", "banking", "investment", "stock", "bond",
          "portfolio", "accounting", "audit", "revenue", "profit", "loss",
          "balance sheet", "income statement", "cash flow", "equity",
          "asset", "liability", "fiscal", "monetary", "securities",
          "derivatives", "hedge fund">>,
     law |->
        <<"legal", "court", "judge", "attorney", "lawsuit", "plaintiff",
          "defendant", "verdict", "statute", "regulation", "compliance",
          "contract", "agreement", "litigation", "jurisdiction", "appeal",
          "prosecution", "defense", "testimony", "evidence", "judicial">>,
     science |->
        <<"research", "experiment", "hypothesis", "theory", "methodology",
          "analysis", "data", "results", "conclusion", "abstract",
          "publication", "peer review", "scientific", "laboratory",
          "variable", "control", "observation", "phenomenon", "empirical",
          "quantitative">>,
     technology |->
        <<"software", "hardware", "algorithm", "programming", "code",
          "system", "application", "platform", "network", "database",
          "cloud", "artificial intelligence", "machine learning",
          "cybersecurity", "blockchain", "api", "framework",
          "architecture", "deployment">>,
     healthcare |->
        <<"medical", "patient", "diagnosis", "treatment", "clinical",
          "hospital", "physician", "nurse", "therapy", "medication",
          "disease", "symptom", "health", "care", "surgical",
          "pharmaceutical", "radiology", "pathology", "anatomy",
          "physiology">>,
     education |->
        <<"teaching", "learning", "student", "curriculum", "course",
          "pedagogy", "instruction", "assessment", "academic",
          "university", "school", "education", "training", "classroom",
          "textbook", "syllabus", "enrollment", "degree", "diploma",
          "scholarship">>,
     business |->
        <<"management", "strategy", "marketing", "sales", "customer",
          "product", "service", "business plan", "entrepreneurship",
          "startup", "operations", "supply chain", "vendor",
          "procurement", "logistics", "human resources", "employee",
          "organizational", "corporate">>,
     engineering |->
        <<"design", "construction", "structural", "mechanical",
          "electrical", "civil", "chemical", "aerospace", "manufacturing",
          "CAD", "blueprint", "specifications", "materials", "testing",
          "prototype", "maintenance", "installation", "inspection",
          "quality control">>,
     arts |->
        <<"creative", "artistic", "design", "visual", "performance",
          "music", "theater", "literature", "painting", "sculpture",
          "photography", "film", "media", "aesthetic", "exhibition",
          "gallery", "composition", "choreography", "narrative">>]

UpperCase == "ABCDEFGHIJKLMNOPQRSTUVWXYZ"

LowerCase == "abcdefghijklmnopqrstuvwxyz"

\* str.lower() of one character
LowerChar(c) ==
    IF \E i \in 1..Len(UpperCase) : SubSeq(UpperCase, i, i) = c
    THEN LET i == CHOOSE j \in 1..Len(UpperCase) : SubSeq(UpperCase, j, j) = c
         IN  SubSeq(LowerCase, i, i)
    ELSE c

\* str.lower(): character by character, the string taken in halves
RECURSIVE ToLower(_)
ToLower(s) ==
    IF Len(s) = 0 THEN s
    ELSE IF Len(s) = 1 THEN LowerChar(s)
    ELSE ToLower(SubSeq(s, 1, Len(s) \div 2)) \o ToLower(SubSeq(s, Len(s) \div 2 + 1, Len(s)))

\* k in t, for strings
Contains(k, t) ==
    \E kk \in {k}, tt \in {t} :
        \E i \in 1..(Len(tt) - Len(kk) + 1) : SubSeq(tt, i, i + Len(kk) - 1) = kk

\* the number of places of the lower-cased text at which the keyword begins
Occurrences(kw, text_lower) ==
    LET Places(k, t) == {i \in 1..(Len(t) - Len(k) + 1) : SubSeq(t, i, i + Len(k) - 1) = k}
    IN  CHOOSE n \in {Cardinality(Places(k, t)) : k \in {ToLower(kw)}, t \in {text_lower}} : TRUE

\* the scores with every occurrence of a keyword counted
DomainScoresPerOccurrence(text) ==
    LET Scores(text_lower) ==
            [d \in SeqToSet(CatalogDomains) |->
                SumScores([j \in 1..Len(DomainKeywords[d]) |->
                              Occurrences(DomainKeywords[d][j], text_lower)],
                          1..Len(DomainKeywords[d]))]
    IN  CHOOSE domain_scores \in {Scores(text_lower) : text_lower \in {ToLower(text)}} : TRUE

\* domain_scores: sum(1 for keyword in keywords if keyword.lower() in text_lower)
DomainScores(text) ==
    LET Scores(text_lower) ==
            [d \in SeqToSet(CatalogDomains) |->
                Cardinality({j \in 1..Len(DomainKeywords[d]) :
                                Contains(ToLower(DomainKeywords[d][j]), text_lower)})]
    IN  CHOOSE domain_scores \in {Scores(text_lower) : text_lower \in {ToLower(text)}} : TRUE

\* matched_keywords before the cut to ten
MatchedKeywords(domain, text) ==
    LET Matched(text_lower) ==
            SelectSeq(DomainKeywords[domain], LAMBDA kw : Contains(ToLower(kw), text_lower))
    IN  CHOOSE matched_keywords \in {Matched(text_lower) : text_lower \in {ToLower(text)}} : TRUE

\* _keyword_based_classification on a text: the scores are counted, the record
\* is made from them, and reasoning (the number it quotes) and keywords are added
KeywordFallback(text) ==
    LET Record(domain_scores, record) ==
            IF record.primary_domain = "general"
            THEN [primary_domain |-> record.primary_domain,
                  confidence |-> record.confidence,
                  reasoning |-> 0,
                  keywords |-> <<>>,
                  alternative_domains |-> record.alternative_domains,
                  method |-> record.method]
            ELSE [primary_domain |-> record.primary_domain,
                  confidence |-> record.confidence,
                  reasoning |-> domain_scores[record.primary_domain],
                  keywords |-> Prefix(MatchedKeywords(record.primary_domain, text), 10),
                  alternative_domains |-> record.alternative_domains,
                  method |-> record.method]
    IN  CHOOSE r \in {Record(domain_scores,
                             KeywordBasedClassification([long |-> FALSE, hits |-> domain_scores])) :
                         domain_scores \in {DomainScores(text)}} : TRUE

\* the pieces the texts of the model are made of
Fragments ==
    <<"the patient was given a clinical diagnosis",
      "Stock",
      "database",
      "design",
      "hello",
      "CAD",
      "medical patient diagnosis treatment clinical hospital physician nurse therapy medication disease">>

\* " ".join of the fragments with the given indices
RECURSIVE Join(_)
Join(ix) ==
    IF Len(ix) = 0 THEN ""
    ELSE IF Len(ix) = 1 THEN Fragments[ix[1]]
    ELSE Fragments[ix[1]] \o " " \o Join(Tail(ix))

\* the texts of the model: up to MaxFragments fragments, separated by blanks
KwTexts == {Join(ix) : ix \in UNION {[1..n -> 1..Len(Fragments)] : n \in 0..MaxFragments}}

-----------------------------------------------------------------------------
(* DomainRouterAgent *)

\* x in a Python list
InList(x, l) == x \in SeqToSet(l)

\* the weighted vote with the text threshold met at 0.6 already
FallbackDecisionAtLeast(vision_analysis, text_analysis) ==
    LET text_domain       == Get(text_analysis, "primary_domain", "general")
        text_confidence   == Get(text_analysis, "confidence", Num(0))
        vision_domains    == Get(vision_analysis, "visual_domain_hints", <<>>)
        vision_confidence == Get(vision_analysis, "confidence", Num(0))
    IN  IF ~text_confidence.num
        THEN Raised("TypeError")
        ELSE IF text_confidence.v >= 600
        THEN Returned([final_domain |-> text_domain,
                       confidence |-> Num((text_confidence.v * 8) \div 10),
                       agreement_level |-> IF InList(text_domain, vision_domains)
                                           THEN "medium" ELSE "low",
                       method |-> "fallback_weighted"])
        ELSE IF vision_domains # <<>>
        THEN Returned([final_domain |-> vision_domains[1],
                       confidence |-> Num((vision_confidence.v * 7) \div 10),
                       agreement_level |-> "low",
                       method |-> "fallback_weighted"])
        ELSE Returned([final_domain |-> "general",
                       confidence |-> Num(400),
                       agreement_level |-> "none",
                       method |-> "fallback_weighted"])

\* _fallback_decision; comparing a confidence that is no number raises.
\* (reasoning and primary_evidence are fixed texts.)
FallbackDecision(vision_analysis, text_analysis) ==
    LET text_domain       == Get(text_analysis, "primary_domain", "general")
        text_confidence   == Get(text_analysis, "confidence", Num(0))
        vision_domains    == Get(vision_analysis, "visual_domain_hints", <<>>)
        vision_confidence == Get(vision_analysis, "confidence", Num(0))
    IN  IF ~text_confidence.num
        THEN Raised("TypeError")
        ELSE IF text_confidence.v > 600
        THEN Returned([final_domain |-> text_domain,
                       confidence |-> Num((text_confidence.v * 8) \div 10),
                       agreement_level |-> IF InList(text_domain, vision_domains)
                                           THEN "medium" ELSE "low",
                       method |-> "fallback_weighted"])
        ELSE IF vision_domains # <<>>
        THEN Returned([final_domain |-> vision_domains[1],
                       confidence |-> Num((vision_confidence.v * 7) \div 10),
                       agreement_level |-> "low",
                       method |-> "fallback_weighted"])
        ELSE Returned([final_domain |-> "general",
                       confidence |-> Num(400),
                       agreement_level |-> "none",
                       method |-> "fallback_weighted"])

\* the outcomes of the router chain (the arbiter): the call raises, the parsed
\* JSON is no object, or it is an object with some of the keys
ArbiterBackends ==
    {[kind |-> "raise"], [kind |-> "not_dict"]}
    \cup {[kind |-> "dict", reply |-> [final_domain |-> d, confidence |-> c, agreement_level |-> "high"]] :
            d \in {"finance", "medicine"}, c \in {Num(900), Num(1200), NotNum}}
    \cup {[kind |-> "dict", reply |-> [final_domain |-> d, agreement_level |-> "high"]] :
            d \in {"finance"}}
    \cup {[kind |-> "dict", reply |-> [confidence |-> c, agreement_level |-> "high"]] :
            c \in {Num(900)}}

\* the chain has not been invoked

\* the quick-agreement test with the threshold met at 0.7 already
QuickAgreementAtLeast(vision_analysis, text_analysis) ==
    LET text_domain     == Get(text_analysis, "primary_domain", "general")
        text_confidence == Get(text_analysis, "confidence", Num(0))
        vision_domains  == Get(vision_analysis, "visual_domain_hints", <<>>)
    IN  IF ~InList(text_domain, vision_domains) THEN "no"
        ELSE IF ~text_confidence.num THEN "raise"
        ELSE IF text_confidence.v >= 700 THEN "yes" ELSE "no"

\* the quick-agreement test of process: the comparison with 0.7 is evaluated
\* only when the text domain is among the hints
QuickAgreement(vision_analysis, text_analysis) ==
    LET text_domain     == Get(text_analysis, "primary_domain", "general")
        text_confidence == Get(text_analysis, "confidence", Num(0))
        vision_domains  == Get(vision_analysis, "visual_domain_hints", <<>>)
    IN  IF ~InList(text_domain, vision_domains) THEN "no"
        ELSE IF ~text_confidence.num THEN "raise"
        ELSE IF text_confidence.v > 700 THEN "yes" ELSE "no"

\* whether process invokes the chain
ArbiterInvoked(vision_analysis, text_analysis) ==
    QuickAgreement(vision_analysis, text_analysis) = "no"

\* process without the except clause around the chain: its failure propagates
RouterProcessNoFallback(vision_analysis, text_analysis, backend) ==
    LET text_domain       == Get(text_analysis, "primary_domain", "general")
        text_confidence   == Get(text_analysis, "confidence", Num(0))
        vision_confidence == Get(vision_analysis, "confidence", Num(0))
        quick             == QuickAgreement(vision_analysis, text_analysis)
    IN  IF quick = "raise"
        THEN Raised("TypeError")
        ELSE IF quick = "yes"
        THEN Returned([final_domain |-> text_domain,
                       confidence |-> Num((text_confidence.v + vision_confidence.v) \div 2),
                       agreement_level |-> "high",
                       method |-> "quick_agreement"])
        ELSE IF backend.kind = "dict"
        THEN Returned([method |-> "llm_decision"] @@ backend.reply)
        ELSE Raised("arbiter error")

\* process falling back to the weighted vote as well when the chain's reply
\* lacks a confidence
RouterProcessFallbackOnIncomplete(vision_analysis, text_analysis, backend) ==
    LET text_domain       == Get(text_analysis, "primary_domain", "general")
        text_confidence   == Get(text_analysis, "confidence", Num(0))
        vision_confidence == Get(vision_analysis, "confidence", Num(0))
        quick             == QuickAgreement(vision_analysis, text_analysis)
    IN  IF quick = "raise"
        THEN Raised("TypeError")
        ELSE IF quick = "yes"
        THEN Returned([final_domain |-> text_domain,
                       confidence |-> Num((text_confidence.v + vision_confidence.v) \div 2),
                       agreement_level |-> "high",
                       method |-> "quick_agreement"])
        ELSE IF backend.kind = "dict" /\ "confidence" \in DOMAIN backend.reply
        THEN Returned([method |-> "llm_decision"] @@ backend.reply)
        ELSE FallbackDecision(vision_analysis, text_analysis)

\* DomainRouterAgent.process
RouterProcess(vision_analysis, text_analysis, backend) ==
    LET text_domain       == Get(text_analysis, "primary_domain", "general")
        text_confidence   == Get(text_analysis, "confidence", Num(0))
        vision_confidence == Get(vision_analysis, "confidence", Num(0))
        quick             == QuickAgreement(vision_analysis, text_analysis)
    IN  IF quick = "raise"
        THEN Raised("TypeError")
        ELSE IF quick = "yes"
        THEN Returned([final_domain |-> text_domain,
                       confidence |-> Num((text_confidence.v + vision_confidence.v) \div 2),
                       agreement_level |-> "high",
                       method |-> "quick_agreement"])
        ELSE IF backend.kind = "dict"
        THEN Returned([method |-> "llm_decision"] @@ backend.reply)
        ELSE FallbackDecision(vision_analysis, text_analysis)

-----------------------------------------------------------------------------
(* FileOrganizationAgent *)

\* what the file server answers in a run
FilerOutcomes == {"folder_failed", "copy_failed", "placed"}

\* the destination the file server reports for a placement
Destination == "destination"

\* FileOrganizationAgent.process with operation copy: file_path and filename
\* are given; a failure reported by the file server is returned as a dict
OrgProcess(exists, domain, outcome) ==
    IF ~exists
    THEN Raised("File not found")
    ELSE IF outcome = "folder_failed"
    THEN Returned([success |-> FALSE, error |-> "Failed to create domain folder"])
    ELSE IF outcome = "copy_failed"
    THEN Returned([success |-> FALSE, error |-> "Failed to copy file"])
    ELSE Returned([success |-> TRUE, operation |-> "copy", domain |-> domain,
                   destination |-> Destination])

-----------------------------------------------------------------------------
(* DocumentClassificationWorkflow: the graph *)

Nodes ==
    {"intake", "vision_analysis", "text_classification", "domain_router",
     "file_organization", "error_handler"}

\* the order in which the updates of one superstep are merged into the state
NodeOrder ==
    <<"intake", "vision_analysis", "text_classification", "domain_router",
      "file_organization", "error_handler">>

\* _check_intake_success
CheckIntakeSuccess(st) ==
    IF Get(st, "error", "") # "" THEN "error" ELSE "success"

\* the edges with the text branch chained behind the vision branch while the
\* router stays reachable from the vision branch
EdgesTextBehindVision(n) ==
    CASE n = "intake"              -> {"vision_analysis"}
      [] n = "vision_analysis"     -> {"text_classification", "domain_router"}
      [] n = "text_classification" -> {"domain_router"}
      [] n = "domain_router"       -> {"file_organization"}
      [] OTHER                     -> {}

\* the edges with file organization reachable from the vision branch as well
EdgesFilingFromVision(n) ==
    CASE n = "intake"              -> {"vision_analysis", "text_classification"}
      [] n = "vision_analysis"     -> {"domain_router", "file_organization"}
      [] n = "text_classification" -> {"domain_router"}
      [] n = "domain_router"       -> {"file_organization"}
      [] OTHER                     -> {}

\* _build_graph, add_edge: the targets reached from a node whenever it finishes
\* (file_organization leads to END, error_handler has no edge)
Edges(n) ==
    CASE n = "intake"              -> {"vision_analysis", "text_classification"}
      [] n = "vision_analysis"     -> {"domain_router"}
      [] n = "text_classification" -> {"domain_router"}
      [] n = "domain_router"       -> {"file_organization"}
      [] OTHER                     -> {}

\* the branch with a failed intake tried once more
BranchesWithRetry(n, st) ==
    IF n = "intake"
    THEN IF CheckIntakeSuccess(st) = "success" THEN {"vision_analysis"}
         ELSE IF runs["intake"] < 2 THEN {"error_handler", "intake"}
         ELSE {"error_handler"}
    ELSE {}

\* _build_graph, add_conditional_edges: the target chosen by the branch of a
\* node, evaluated on the state the node's update has been merged into
Branches(n, st) ==
    IF n = "intake"
    THEN IF CheckIntakeSuccess(st) = "success" THEN {"vision_analysis"} ELSE {"error_handler"}
    ELSE {}

\* a finished node triggers the targets of its edges and of its branch
Targets(n, st) == Edges(n) \cup Branches(n, st)

\* the state after the updates of a superstep: every key a node returned
\* replaces the state's, the messages are appended (add_messages)
RECURSIVE MergeUpdates(_, _, _)
MergeUpdates(st, ws, i) ==
    IF i > Len(NodeOrder) THEN st
    ELSE LET n == NodeOrder[i]
         IN  IF n \notin DOMAIN ws THEN MergeUpdates(st, ws, i + 1)
             ELSE LET u    == ws[n]
                      keys == DOMAIN u \ {"messages"}
                      msgs == Get(st, "messages", <<>>) \o Get(u, "messages", <<>>)
                      merged == [k \in DOMAIN st \cup keys \cup {"messages"} |->
                                    IF k = "messages" THEN msgs
                                    ELSE IF k \in keys THEN u[k] ELSE st[k]]
                  IN  MergeUpdates(merged, ws, i + 1)

NoWrites == [n \in {} |-> EmptyDict]

-----------------------------------------------------------------------------
(* The nodes: the dict each returns *)

\* the extractor outcomes of a readable file: the text and the number of preview images
PreviewImageCounts == {0, 1}

\* _intake_node; DocumentIntakeAgent.process raises when the path does not
\* exist and otherwise returns what the extractor helpers produced.
\* (metadata and text_preview are not read by any later stage's decision.)
IntakeNodeUpdate(exists, text, images) ==
    LET r == Execute(IF exists
                     THEN Returned([text_content |-> text, preview_images |-> images])
                     ELSE Raised("Invalid file path"))
    IN  IF r.success
        THEN [text_content |-> r.result.text_content,
              preview_images |-> r.result.preview_images,
              processing_stage |-> "intake_complete",
              messages |-> <<"Intake completed">>]
        ELSE [error |-> r.error, processing_stage |-> "intake_failed"]

\* _vision_node
VisionNodeUpdate(st, backend) ==
    LET r == Execute(VisionProcess(Get(st, "preview_images", 0), backend))
    IN  IF r.success
        THEN [vision_analysis |-> r.result,
              messages |-> <<"Vision analysis completed">>]
        ELSE [vision_analysis |-> [visual_domain_hints |-> <<>>, confidence |-> Num(0),
                                   error |-> r.error],
              messages |-> <<"Vision analysis failed, continuing with text only">>]

\* _text_node
TextNodeUpdate(st, backend) ==
    LET r == Execute(TextProcess(Get(st, "text_content", EmptyText), backend))
    IN  IF r.success
        THEN [text_analysis |-> r.result,
              messages |-> <<"Text classification completed">>]
        ELSE [text_analysis |-> [primary_domain |-> "general", confidence |-> Num(300),
                                 error |-> r.error],
              messages |-> <<"Text classification failed">>]

\* _router_node with a failure path that hands in the error record without a
\* domain
RouterNodeUpdateNoDomain(st, backend) ==
    LET vision_analysis == Get(st, "vision_analysis", EmptyDict)
        text_analysis   == Get(st, "text_analysis", EmptyDict)
    IN  IF IsEmpty(vision_analysis) \/ IsEmpty(text_analysis)
        THEN EmptyDict
        ELSE LET r == Execute(RouterProcess(vision_analysis, text_analysis, backend))
             IN  IF r.success /\ Get(r.result, "confidence", NotNum).num
                 THEN [final_decision |-> r.result,
                       final_domain |-> Get(r.result, "final_domain", "general"),
                       confidence |-> Get(r.result, "confidence", Num(0)),
                       messages |-> <<"Classified">>]
                 ELSE [final_decision |-> [error |-> "router failed"],
                       messages |-> <<"Router failed">>]

\* _router_node: the f-string of the success branch formats the decision's
\* confidence with :.2f, which raises when the key is missing or no number
RouterNodeUpdate(st, backend) ==
    LET vision_analysis == Get(st, "vision_analysis", EmptyDict)
        text_analysis   == Get(st, "text_analysis", EmptyDict)
    IN  IF IsEmpty(vision_analysis) \/ IsEmpty(text_analysis)
        THEN EmptyDict
        ELSE LET r == Execute(RouterProcess(vision_analysis, text_analysis, backend))
             IN  IF r.success
                 THEN LET decision == r.result
                      IN  IF ~Get(decision, "confidence", NotNum).num
                          THEN [final_decision |-> [error |-> "format error"],
                                final_domain |-> "general",
                                confidence |-> Num(300),
                                messages |-> <<"Router error">>]
                          ELSE [final_decision |-> decision,
                                final_domain |-> Get(decision, "final_domain", "general"),
                                confidence |-> Get(decision, "confidence", Num(0)),
                                messages |-> <<"Classified">>]
                 ELSE [final_decision |-> [error |-> r.error],
                       final_domain |-> Get(text_analysis, "primary_domain", "general"),
                       confidence |-> Num(500),
                       messages |-> <<"Router failed, using text classification">>]

\* _organization_node with a failure path that also resets the decision
OrganizationNodeUpdateResetting(st, exists, outcome) ==
    LET r == Execute(OrgProcess(exists, Get(st, "final_domain", "general"), outcome))
    IN  IF r.success
        THEN [organization_result |-> r.result,
              output_path |-> Get(r.result, "destination", ""),
              processing_stage |-> "completed",
              messages |-> <<"File organized">>]
        ELSE [organization_result |-> [error |-> r.error],
              processing_stage |-> "organization_failed",
              error |-> r.error,
              final_domain |-> "general",
              confidence |-> Num(0)]

\* _organization_node
OrganizationNodeUpdate(st, exists, outcome) ==
    LET r == Execute(OrgProcess(exists, Get(st, "final_domain", "general"), outcome))
    IN  IF r.success
        THEN [organization_result |-> r.result,
              output_path |-> Get(r.result, "destination", ""),
              processing_stage |-> "completed",
              messages |-> <<"File organized">>]
        ELSE [organization_result |-> [error |-> r.error],
              processing_stage |-> "organization_failed",
              error |-> r.error]

\* _error_node
ErrorNodeUpdate(st) ==
    [processing_stage |-> "failed", messages |-> <<"Processing failed">>]

\* process_document, the dict returned after the graph has run: a key the
\* state lacks reads as None
ProcessDocumentResult(final_state) ==
    [success |-> Get(final_state, "processing_stage", "None") = "completed",
     filename |-> Get(final_state, "filename", "None"),
     domain |-> Get(final_state, "final_domain", "None"),
     confidence |-> Get(final_state, "confidence", NotNum),
     output_path |-> Get(final_state, "output_path", "None"),
     final_decision |-> Get(final_state, "final_decision", EmptyDict),
     messages |-> Get(final_state, "messages", <<>>)]

-----------------------------------------------------------------------------
(* The run *)

Init ==
    /\ pc = "init"
    /\ fileExists \in BOOLEAN
    /\ state = EmptyDict
    /\ active = {}
    /\ writes = NoWrites
    /\ runs = [n \in Nodes |-> 0]
    /\ arbiter = NotCalled
    /\ filer = "none"
    /\ result = EmptyDict
    /\ NoCalls
    /\ NoRequests
    /\ NoTasks
    /\ NoBatch

\* process_document: the initial state, and the entry point scheduled
Start ==
    /\ pc = "init"
    /\ pc' = "running"
    /\ state' = [file_path |-> "document.pdf", filename |-> "document.pdf", messages |-> <<>>]
    /\ active' = {"intake"}
    /\ UNCHANGED <<fileExists, writes, runs, arbiter, filer, result, callVars, filerVars, taskVars, batchVars>>

\* a scheduled node runs on the state of the superstep's start and hands in its update
Ran(n, update) ==
    /\ active' = active \ {n}
    /\ writes' = [m \in DOMAIN writes \cup {n} |-> IF m = n THEN update ELSE writes[m]]
    /\ runs' = [runs EXCEPT ![n] = @ + 1]
    /\ UNCHANGED <<pc, fileExists, state, result, callVars, filerVars, taskVars, batchVars>>

IntakeNode ==
    /\ pc = "running" /\ "intake" \in active
    /\ \E text \in Texts, images \in PreviewImageCounts :
          Ran("intake", IntakeNodeUpdate(fileExists, text, images))
    /\ UNCHANGED <<arbiter, filer>>

VisionNode ==
    /\ pc = "running" /\ "vision_analysis" \in active
    /\ \E backend \in VisionBackends :
          Ran("vision_analysis", VisionNodeUpdate(state, backend))
    /\ UNCHANGED <<arbiter, filer>>

TextNode ==
    /\ pc = "running" /\ "text_classification" \in active
    /\ \E backend \in TextBackends :
          Ran("text_classification", TextNodeUpdate(state, backend))
    /\ UNCHANGED <<arbiter, filer>>

RouterNode ==
    /\ pc = "running" /\ "domain_router" \in active
    /\ \E backend \in ArbiterBackends :
          /\ Ran("domain_router", RouterNodeUpdate(state, backend))
          /\ arbiter' =
                IF /\ ~IsEmpty(Get(state, "vision_analysis", EmptyDict))
                   /\ ~IsEmpty(Get(state, "text_analysis", EmptyDict))
                   /\ ArbiterInvoked(state.vision_analysis, state.text_analysis)
                THEN backend ELSE arbiter
    /\ UNCHANGED filer

OrganizationNode ==
    /\ pc = "running" /\ "file_organization" \in active
    /\ \E outcome \in FilerOutcomes :
          /\ Ran("file_organization", OrganizationNodeUpdate(state, fileExists, outcome))
          /\ filer' = IF fileExists THEN outcome ELSE filer
    /\ UNCHANGED arbiter

ErrorNode ==
    /\ pc = "running" /\ "error_handler" \in active
    /\ Ran("error_handler", ErrorNodeUpdate(state))
    /\ UNCHANGED <<arbiter, filer>>

\* the nodes the finished superstep triggers
NextNodes(st, ws) == UNION {Targets(n, st) : n \in DOMAIN ws}

\* the end of a superstep: the updates are merged and the next superstep begins
Step ==
    /\ pc = "running" /\ active = {} /\ DOMAIN writes # {}
    /\ LET st == MergeUpdates(state, writes, 1)
       IN  /\ NextNodes(st, writes) # {}
           /\ state' = st
           /\ active' = NextNodes(st, writes)
    /\ writes' = NoWrites
    /\ UNCHANGED <<pc, fileExists, runs, arbiter, filer, result, callVars, filerVars, taskVars, batchVars>>

\* the end of the last superstep: no node is triggered, ainvoke returns the
\* final state and process_document its result
Finish ==
    /\ pc = "running" /\ active = {} /\ DOMAIN writes # {}
    /\ LET st == MergeUpdates(state, writes, 1)
       IN  /\ NextNodes(st, writes) = {}
           /\ state' = st
           /\ result' = ProcessDocumentResult(st)
    /\ pc' = "returned"
    /\ writes' = NoWrites
    /\ UNCHANGED <<fileExists, active, runs, arbiter, filer, callVars, filerVars, taskVars, batchVars>>

Next ==
    \/ Start
    \/ IntakeNode
    \/ VisionNode
    \/ TextNode
    \/ RouterNode
    \/ OrganizationNode
    \/ ErrorNode
    \/ Step
    \/ Finish

Spec == Init /\ [][Next]_vars

\* a run under the graph engine, which runs every scheduled node and every
\* superstep barrier: asyncio.run drives ainvoke until it returns
FairSpec == Spec /\ WF_vars(Next)

-----------------------------------------------------------------------------
(* Agent methods called on their own *)

\* no run of process_document is under way
NoRun ==
    /\ pc = "idle"
    /\ fileExists = FALSE
    /\ state = EmptyDict
    /\ active = {}
    /\ writes = NoWrites
    /\ runs = [n \in Nodes |-> 0]
    /\ arbiter = NotCalled
    /\ filer = "none"
    /\ result = EmptyDict

\* the calls of _keyword_based_classification
KeywordCalls == {[kind |-> "keyword", text |-> t] : t \in KwTexts}

\* the calls of TextClassificationAgent.process, with what the chain will do
TextCalls ==
    {[kind |-> "text", text_content |-> t, backend |-> b] : t \in SizedTexts, b \in TextBackends}

\* the calls of the vision node, with what the vision backend will do
VisionCalls ==
    {[kind |-> "vision", preview_images |-> n, backend |-> b] :
        n \in 0..MaxImages, b \in VisionBackends}

CallInit ==
    /\ NoRun
    /\ NoRequests
    /\ NoTasks
    /\ NoBatch
    /\ \/ input \in KeywordCalls
       \/ input \in TextCalls
       \/ input \in VisionCalls
    /\ output = NoCall

\* TextClassificationAgent._keyword_based_classification(text, filename)
KeywordCall ==
    /\ input.kind = "keyword" /\ output = NoCall
    /\ output' = [kind |-> "keyword", result |-> KeywordFallback(input.text)]
    /\ UNCHANGED <<input, runVars, filerVars, taskVars, batchVars>>

\* TextClassificationAgent.process(input_data), through execute
TextCall ==
    /\ input.kind = "text" /\ output = NoCall
    /\ output' = [kind |-> "text",
                  chain |-> TextChainCall(input.text_content),
                  result |-> Execute(TextProcess(input.text_content, input.backend))]
    /\ UNCHANGED <<input, runVars, filerVars, taskVars, batchVars>>

\* _vision_node on a state with the given preview images
VisionCall ==
    /\ input.kind = "vision" /\ output = NoCall
    /\ output' = [kind |-> "vision",
                  calls |-> VisionBackendCalls(input.preview_images),
                  update |-> VisionNodeUpdate([preview_images |-> input.preview_images],
                                              input.backend)]
    /\ UNCHANGED <<input, runVars, filerVars, taskVars, batchVars>>

CallNext ==
    \/ KeywordCall
    \/ TextCall
    \/ VisionCall

CallSpec == CallInit /\ [][CallNext]_vars

-----------------------------------------------------------------------------
(* The file server: MCPFileServer behind its HTTP endpoints *)

Clients == 1..MaxClients

\* the file names the clients ask to place
FileNames == {"report.pdf", "notes"}

\* the files a domain folder may hold before the first request, their content 0
InitialFolders ==
    {EmptyDict,
     [n \in {"report.pdf"} |-> 0],
     [n \in {"report.pdf", "report_1.pdf"} |-> 0],
     [n \in {"report.pdf", "report_2.pdf"} |-> 0]}

\* the place of the dot that starts Path.suffix, 0 if the name has no suffix
SuffixDot(name) ==
    LET dots == {i \in 2..(Len(name) - 1) : SubSeq(name, i, i) = "."}
    IN  IF dots = {} THEN 0 ELSE CHOOSE i \in dots : \A j \in dots : j <= i

\* Path.stem
Stem(name) == IF SuffixDot(name) = 0 THEN name ELSE SubSeq(name, 1, SuffixDot(name) - 1)

\* Path.suffix
Suffix(name) == IF SuffixDot(name) = 0 THEN "" ELSE SubSeq(name, SuffixDot(name), Len(name))

\* f"{base_name}_{counter}{extension}"
Suffixed(base_name, counter, extension) == base_name \o "_" \o ToString(counter) \o extension

\* a request before its client has sent it
NoRequest ==
    [pc |-> "idle", filename |-> "", operation |-> "", destination |-> "", counter |-> 0,
     before |-> {}, pending |-> {}, success |-> FALSE]

\* the event loop takes up a handler only when it runs none: the endpoints are
\* coroutines without an await, so a handler runs to its return
LoopFreeAlways(c) == TRUE

LoopFree(c) == loop = 0

FilerInit ==
    /\ NoRun
    /\ NoCalls
    /\ NoTasks
    /\ NoBatch
    /\ folder \in InitialFolders
    /\ \E present \in SUBSET Clients : uploads = [c \in present |-> c]
    /\ req = [c \in Clients |-> NoRequest]
    /\ loop = 0

\* MCPClient.copy_file / move_file: the request is posted
Send(c) ==
    /\ req[c].pc = "idle"
    /\ \E name \in FileNames, op \in {"copy", "move"} :
          req' = [req EXCEPT ![c].pc = "sent", ![c].filename = name, ![c].operation = op]
    /\ UNCHANGED <<folder, uploads, loop, runVars, callVars, taskVars, batchVars>>

\* the endpoint is entered: copy_file / move_file up to "destination =
\* domain_folder / filename"; a missing source is answered at once
Begin(c) ==
    /\ req[c].pc = "sent"
    /\ LoopFree(c)
    /\ IF c \notin DOMAIN uploads
       THEN /\ req' = [req EXCEPT ![c].pc = "done"]
            /\ UNCHANGED loop
       ELSE /\ req' = [req EXCEPT ![c].pc = "if_exists",
                                  ![c].destination = req[c].filename,
                                  ![c].before = DOMAIN folder,
                                  ![c].pending = {d \in Clients \ {c} : req[d].pc = "sent"}]
            /\ loop' = c
    /\ UNCHANGED <<folder, uploads, runVars, callVars, taskVars, batchVars>>

\* the copy reached without the check of the destination
IfExistsSkipped(c) ==
    /\ req[c].pc = "if_exists"
    /\ req' = [req EXCEPT ![c].pc = "copy"]
    /\ UNCHANGED <<folder, uploads, loop, runVars, callVars, taskVars, batchVars>>

\* if destination.exists(): base_name, extension, counter = 1
IfExists(c) ==
    /\ req[c].pc = "if_exists"
    /\ req' = IF req[c].destination \in DOMAIN folder
              THEN [req EXCEPT ![c].pc = "while_exists", ![c].counter = 1]
              ELSE [req EXCEPT ![c].pc = "copy"]
    /\ UNCHANGED <<folder, uploads, loop, runVars, callVars, taskVars, batchVars>>

\* while destination.exists(): the next suffixed name, counter += 1
WhileExists(c) ==
    /\ req[c].pc = "while_exists"
    /\ req' = IF req[c].destination \in DOMAIN folder
              THEN [req EXCEPT ![c].destination =
                                   Suffixed(Stem(req[c].filename), req[c].counter,
                                            Suffix(req[c].filename)),
                               ![c].counter = @ + 1]
              ELSE [req EXCEPT ![c].pc = "copy"]
    /\ UNCHANGED <<folder, uploads, loop, runVars, callVars, taskVars, batchVars>>

\* shutil.copy2 / shutil.move and the return of the handler: the file is
\* written over whatever the destination holds, or the call raises and the
\* handler answers success False
Copy(c) ==
    /\ req[c].pc = "copy"
    /\ \E raises \in BOOLEAN :
          IF raises \/ c \notin DOMAIN uploads
          THEN /\ req' = [req EXCEPT ![c].pc = "done"]
               /\ UNCHANGED <<folder, uploads>>
          ELSE /\ folder' = [n \in DOMAIN folder \cup {req[c].destination} |->
                                IF n = req[c].destination THEN uploads[c] ELSE folder[n]]
               /\ uploads' = IF req[c].operation = "move"
                             THEN [d \in DOMAIN uploads \ {c} |-> uploads[d]]
                             ELSE uploads
               /\ req' = [req EXCEPT ![c].pc = "done", ![c].success = TRUE]
    /\ loop' = 0
    /\ UNCHANGED <<runVars, callVars, taskVars, batchVars>>

FilerNext ==
    \E c \in Clients :
        \/ Send(c)
        \/ Begin(c)
        \/ IfExists(c)
        \/ WhileExists(c)
        \/ Copy(c)

FilerSpec == FilerInit /\ [][FilerNext]_vars

-----------------------------------------------------------------------------
(* Properties of a run *)

(* The documents API (src/api/routes/documents.py) and process_document_task *)
(* (src/tasks/celery_app.py).  A request handler runs to its end without    *)
(* yielding; a task is in the broker's queue until a worker takes it, and   *)
(* its commits are the points where the other processes see the row.        *)

DocIds == 1..MaxDocs

Workers == 1..MaxWorkers

\* ProcessingStatus
ProcessingStatus == {"pending", "processing", "completed", "failed"}

\* DocumentDomain: the values of the enum
DocumentDomainValues == SeqToSet(CatalogDomains) \cup {"general"}

\* what workflow.process_document returns to a task, as far as the task reads
\* it: success and the domain tag, which is any string the router stored
WorkflowResults ==
    {[success |-> s, domain |-> d] : s \in BOOLEAN, d \in {"finance", "general", "medicine"}}

\* a worker that runs no task
Idle == [pc |-> "idle"]

TaskInit ==
    /\ NoRun
    /\ NoCalls
    /\ NoRequests
    /\ NoBatch
    /\ docs = EmptyDict
    /\ queue = <<>>
    /\ worker = [w \in Workers |-> Idle]
    /\ sent = 0

\* crud.update_document_status on an existing row
UpdateDocumentStatus(d, status) == [docs EXCEPT ![d].status = status]

\* upload_document: crud.create_document adds a row in status PENDING
Upload ==
    /\ sent < MaxRequests
    /\ Cardinality(DOMAIN docs) < MaxDocs
    /\ sent' = sent + 1
    /\ docs' = docs @@ [d \in {Cardinality(DOMAIN docs) + 1} |->
                          [status |-> "pending", retry_count |-> 0]]
    /\ UNCHANGED <<queue, worker, runVars, callVars, filerVars, batchVars>>

\* POST /documents/{document_id}/process: 404 for an unknown document, 400
\* for one that is not PENDING, else the task is queued
PostProcess(d) ==
    /\ sent < MaxRequests
    /\ sent' = sent + 1
    /\ IF d \in DOMAIN docs /\ docs[d].status = "pending"
       THEN queue' = Append(queue, d)
       ELSE UNCHANGED queue
    /\ UNCHANGED <<docs, worker, runVars, callVars, filerVars, batchVars>>

\* POST /documents/{document_id}/retry: 404 for an unknown document, else the
\* status is reset to PENDING, retry_count is raised and the task is queued
PostRetry(d) ==
    /\ sent < MaxRequests
    /\ sent' = sent + 1
    /\ IF d \in DOMAIN docs
       THEN /\ docs' = [UpdateDocumentStatus(d, "pending") EXCEPT ![d].retry_count = @ + 1]
            /\ queue' = Append(queue, d)
       ELSE UNCHANGED <<docs, queue>>
    /\ UNCHANGED <<worker, runVars, callVars, filerVars, batchVars>>

\* process_document_task up to its first commit: a worker takes the task, the
\* row is read and, when it exists, committed in status PROCESSING
TaskBegin(w) ==
    /\ worker[w].pc = "idle"
    /\ queue # <<>>
    /\ queue' = Tail(queue)
    /\ IF Head(queue) \in DOMAIN docs
       THEN /\ docs' = UpdateDocumentStatus(Head(queue), "processing")
            /\ worker' = [worker EXCEPT ![w] = [pc |-> "running", doc |-> Head(queue)]]
       ELSE UNCHANGED <<docs, worker>>
    /\ UNCHANGED <<sent, runVars, callVars, filerVars, batchVars>>

\* the status process_document_task commits last for a workflow result:
\* DocumentDomain(result["domain"]) raises ValueError for a tag outside the
\* enum, and the handler of the task then commits FAILED
TaskStatus(r) ==
    IF r.success
    THEN IF r.domain \in DocumentDomainValues THEN "completed" ELSE "failed"
    ELSE "failed"

\* process_document_task from the workflow's run to its return
TaskFinish(w) ==
    /\ worker[w].pc = "running"
    /\ \E r \in WorkflowResults :
          /\ docs' = UpdateDocumentStatus(worker[w].doc, TaskStatus(r))
          /\ worker' = [worker EXCEPT ![w] = [pc |-> "idle", doc |-> worker[w].doc, result |-> r]]
    /\ UNCHANGED <<queue, sent, runVars, callVars, filerVars, batchVars>>

TaskNext ==
    \/ Upload
    \/ \E d \in DocIds : PostProcess(d)
    \/ \E d \in DocIds : PostRetry(d)
    \/ \E w \in Workers : TaskBegin(w)
    \/ \E w \in Workers : TaskFinish(w)

\* the API with its workers
TaskSpec == TaskInit /\ [][TaskNext]_vars

-----------------------------------------------------------------------------

(* process_batch_task (src/tasks/celery_app.py).  The task works through    *)
(* one database session: an attribute set on a row is pending in the        *)
(* session until the next commit writes it, and the handler of the per-file *)
(* loop neither rolls the session back nor commits.                         *)

\* the file paths a batch is queued with: at least one (the route answers 404
\* for an empty folder), each naming a file that still exists when the task
\* reaches it, or not
FilePaths == UNION {[1..n -> BOOLEAN] : n \in 1..MaxFiles}

\* crud.create_batch: the row of a new batch
NewBatch == [status |-> "pending", processed_documents |-> 0, failed_documents |-> 0]

\* the row of the batch has been deleted before the task starts
DeletedBatch == [status |-> "deleted"]

BatchInit ==
    /\ NoRun
    /\ NoCalls
    /\ NoRequests
    /\ NoTasks
    /\ file_paths \in FilePaths
    /\ batch \in {NewBatch, DeletedBatch}
    /\ bdocs = EmptyDict
    /\ bt = [pc |-> "queued", i |-> 1, processed |-> 0, failed |-> 0,
             counted |-> [k \in DOMAIN file_paths |-> 0]]

\* db.commit(): the pending attribute of a row is written
Flush(d) == [status |-> IF d.pending = "none" THEN d.status ELSE d.pending, pending |-> "none"]

\* db.commit() on the rows of the session
Commit(ds) == [k \in DOMAIN ds |-> Flush(ds[k])]

\* process_batch_task up to the loop: the batch is read and, when it exists,
\* committed in status PROCESSING
BatchBegin ==
    /\ bt.pc = "queued"
    /\ IF batch = DeletedBatch
       THEN /\ bt' = [bt EXCEPT !.pc = "returned"]
            /\ UNCHANGED batch
       ELSE /\ batch' = [batch EXCEPT !.status = "processing"]
            /\ bt' = [bt EXCEPT !.pc = "loop"]
    /\ UNCHANGED <<file_paths, bdocs, runVars, callVars, filerVars, taskVars>>

\* the per-file loop up to the commit of the new row: os.path.getsize raises
\* for a file that is gone, and the handler counts the path as failed
BatchCreate ==
    /\ bt.pc = "loop" /\ bt.i <= Len(file_paths)
    /\ IF file_paths[bt.i]
       THEN /\ bdocs' = Commit(bdocs) @@ [k \in {bt.i} |-> [status |-> "processing", pending |-> "none"]]
            /\ bt' = [bt EXCEPT !.pc = "created"]
       ELSE /\ bt' = [bt EXCEPT !.failed = @ + 1, !.counted[bt.i] = @ + 1, !.i = @ + 1]
            /\ UNCHANGED bdocs
    /\ UNCHANGED <<file_paths, batch, runVars, callVars, filerVars, taskVars>>

\* the body with the status set after the domain tag has been converted
LoopBodyDomainFirst(ds, i, r) ==
    IF r.success
    THEN IF r.domain \in DocumentDomainValues
         THEN Commit([ds EXCEPT ![i].pending = "completed"])
         ELSE ds
    ELSE Commit([ds EXCEPT ![i].pending = "failed"])

\* the rows of the session after the loop body has handled the workflow's
\* result for row i: the status is set, DocumentDomain(result["domain"])
\* raises ValueError for a tag outside the enum and leaves the status pending
\* in the session, else the row is committed
LoopBody(ds, i, r) ==
    IF r.success
    THEN IF r.domain \in DocumentDomainValues
         THEN Commit([ds EXCEPT ![i].pending = "completed"])
         ELSE [ds EXCEPT ![i].pending = "completed"]
    ELSE Commit([ds EXCEPT ![i].pending = "failed"])

\* the counts with processed raised before the domain tag is converted
LoopCountsProcessedFirst(r) ==
    IF r.success
    THEN IF r.domain \in DocumentDomainValues
         THEN [processed |-> 1, failed |-> 0]
         ELSE [processed |-> 1, failed |-> 1]
    ELSE [processed |-> 0, failed |-> 1]

\* what the loop body adds to processed and failed for a workflow result
LoopCounts(r) ==
    IF r.success
    THEN IF r.domain \in DocumentDomainValues
         THEN [processed |-> 1, failed |-> 0]
         ELSE [processed |-> 0, failed |-> 1]
    ELSE [processed |-> 0, failed |-> 1]

\* the per-file loop from the workflow's run to the end of the iteration
BatchProcess ==
    /\ bt.pc = "created"
    /\ \E r \in WorkflowResults :
          /\ bdocs' = LoopBody(bdocs, bt.i, r)
          /\ bt' = [bt EXCEPT !.pc = "loop",
                              !.processed = @ + LoopCounts(r).processed,
                              !.failed = @ + LoopCounts(r).failed,
                              !.counted[bt.i] = @ + LoopCounts(r).processed + LoopCounts(r).failed,
                              !.i = @ + 1]
    /\ UNCHANGED <<file_paths, batch, runVars, callVars, filerVars, taskVars>>

\* process_batch_task after the loop: the batch is committed COMPLETED with
\* the counts, and the task returns
BatchFinish ==
    /\ bt.pc = "loop" /\ bt.i > Len(file_paths)
    /\ batch' = [status |-> "completed",
                 processed_documents |-> bt.processed,
                 failed_documents |-> bt.failed]
    /\ bdocs' = Commit(bdocs)
    /\ bt' = [bt EXCEPT !.pc = "returned"]
    /\ UNCHANGED <<file_paths, runVars, callVars, filerVars, taskVars>>

BatchNext ==
    \/ BatchBegin
    \/ BatchCreate
    \/ BatchProcess
    \/ BatchFinish

\* one batch task
BatchSpec == BatchInit /\ [][BatchNext]_vars

\* the batch task on a worker, which executes the task to its end
FairBatchSpec == BatchSpec /\ WF_vars(BatchNext)

-----------------------------------------------------------------------------

\* the state's value of a key that holds a dict
Dict(k) == Get(state, k, EmptyDict)

Stage == Get(state, "processing_stage", "None")

\* the run has returned and its intake stage had failed: intake wrote no text
IntakeFailed == pc = "returned" /\ "text_content" \notin DOMAIN state

\* the run has returned and its intake stage had succeeded
IntakeSucceeded == pc = "returned" /\ "text_content" \in DOMAIN state

\* the router is scheduled or has run
RouterStarted == "domain_router" \in active \/ runs["domain_router"] > 0

\* C1: the router stage is not scheduled and does not run before both the
\* vision node and the text node have written a non-empty result record
\* to the state.
C1_RouterAfterBothBranches ==
    RouterStarted =>
        /\ ~IsEmpty(Dict("vision_analysis"))
        /\ ~IsEmpty(Dict("text_analysis"))
        /\ runs["vision_analysis"] = 1
        /\ runs["text_classification"] = 1

\* the router has run after a degraded vision branch and stored a decision
C1_Witness ==
    /\ runs["domain_router"] = 1
    /\ "error" \in DOMAIN Dict("vision_analysis")
    /\ "final_decision" \in DOMAIN state

\* C2: a run whose intake failed ends in the stage failed with the intake
\* error, and vision analysis, text classification, domain routing and file
\* organization did not execute.
C2_IntakeFailureEndsFailed ==
    IntakeFailed =>
        /\ Stage = "failed"
        /\ Get(state, "error", "") = "Invalid file path"
        /\ runs["vision_analysis"] = 0
        /\ runs["text_classification"] = 0
        /\ runs["domain_router"] = 0
        /\ runs["file_organization"] = 0

\* C3: a run in which the Filer did not place the file ends in
\* organization_failed with success=false, and a run ends completed with
\* success=true only after a reported placement with a destination.
C3_NoPlacementIsFailure ==
    (pc = "returned" /\ runs["file_organization"] > 0) =>
        /\ filer # "placed" => (Stage = "organization_failed" /\ ~result.success)
        /\ (Stage = "completed" /\ result.success) =>
              (filer = "placed" /\ result.output_path = Destination)

\* the records the router read, and what it read from them
VisionRecord == Dict("vision_analysis")

TextRecord == Dict("text_analysis")

TextDomain == Get(TextRecord, "primary_domain", "general")

TextConfidence == Get(TextRecord, "confidence", Num(0))

VisionHints == Get(VisionRecord, "visual_domain_hints", <<>>)

VisionConfidence == Get(VisionRecord, "confidence", Num(0))

\* the router's update has been merged into the state
RouterDone == "final_decision" \in DOMAIN state

Decision == Dict("final_decision")

\* the chain was invoked and failed: it raised or its reply was no JSON object
ArbiterFailed == arbiter.kind \in {"raise", "not_dict"}

\* C4: with intake and filing succeeding, the run ends completed with
\* success=true whatever the vision backend, the text backend and the arbiter
\* did, and when all three failed the decision's method is fallback_weighted.
C4_DegradedStagesDoNotFail ==
    (IntakeSucceeded /\ filer = "placed") =>
        /\ Stage = "completed"
        /\ result.success
        /\ ( /\ "error" \in DOMAIN VisionRecord
             /\ Get(TextRecord, "method", "") = "keyword_fallback"
             /\ ArbiterFailed )
           => Get(result.final_decision, "method", "") = "fallback_weighted"

\* a returned run in which the vision backend, the text backend and the
\* arbiter all failed and the file was placed
C4_Witness ==
    /\ IntakeSucceeded /\ filer = "placed"
    /\ state.text_content.long
    /\ "error" \in DOMAIN VisionRecord
    /\ Get(TextRecord, "method", "") = "keyword_fallback"
    /\ arbiter.kind = "raise"
    /\ result.success

\* a fatal condition occurred in the run: intake failed or the file was not placed
Fatal == IntakeFailed \/ (pc = "returned" /\ filer # "placed")

\* C5: the returned result carries success=false and a non-empty error
\* exactly when a fatal condition occurred, and success=true otherwise.
C5_FailureExactlyWhenFatal ==
    pc = "returned" =>
        /\ Fatal => (~result.success /\ Get(result, "error", "") # "")
        /\ ~Fatal => (result.success /\ "error" \notin DOMAIN result)

\* C6: the final_domain stored by the router and returned in the result is
\* one of the ten domain tags.
C6_FinalDomainInCatalog ==
    /\ "final_domain" \in DOMAIN state => state.final_domain \in DomainTags
    /\ (pc = "returned" /\ RouterDone) => result.domain \in DomainTags

\* a confidence that is a number lies in [0.0, 1.0]
InUnitInterval(c) == c.num => (c.v >= 0 /\ c.v <= One)

\* C7: every confidence a stage has written (vision record, text record,
\* decision record, the state's confidence) lies in [0.0, 1.0].
C7_ConfidencesInUnitInterval ==
    /\ "confidence" \in DOMAIN VisionRecord => InUnitInterval(VisionRecord.confidence)
    /\ "confidence" \in DOMAIN TextRecord => InUnitInterval(TextRecord.confidence)
    /\ "confidence" \in DOMAIN Decision => InUnitInterval(Decision.confidence)
    /\ "confidence" \in DOMAIN state => InUnitInterval(state.confidence)

\* the condition of quick agreement, as the claim states it
QuickCondition ==
    /\ InList(TextDomain, VisionHints)
    /\ TextConfidence.num /\ TextConfidence.v > 700

\* C8: once the router has run, if the text domain is among the vision hints
\* and the text confidence exceeds 0.7, the decision is the text domain with
\* the mean of the two confidences, agreement high, method quick_agreement,
\* and the arbiter was not invoked; otherwise the decision is not a
\* quick_agreement one.
C8_QuickAgreement ==
    RouterDone =>
        IF QuickCondition
        THEN /\ Decision = [final_domain |-> TextDomain,
                            confidence |-> Num((TextConfidence.v + VisionConfidence.v) \div 2),
                            agreement_level |-> "high",
                            method |-> "quick_agreement"]
             /\ state.final_domain = TextDomain
             /\ arbiter = NotCalled
        ELSE Get(Decision, "method", "") # "quick_agreement"

\* the router has decided by quick agreement
C8_Witness ==
    /\ RouterDone /\ QuickCondition
    /\ Decision.method = "quick_agreement"
    /\ Len(VisionHints) > 1

\* C9: whenever the weighted vote is taken (the arbiter failed), the decision
\* is: text confidence > 0.6: the text domain, 0.8 x text confidence, medium
\* if the text domain is among the hints, else low; otherwise with hints: the
\* first hint, 0.7 x vision confidence, low; otherwise general, 0.4, none;
\* method fallback_weighted in each case.
C9_FallbackDecision ==
    (RouterDone /\ ArbiterFailed /\ TextConfidence.num) =>
        Decision =
            IF TextConfidence.v > 600
            THEN [final_domain |-> TextDomain,
                  confidence |-> Num((TextConfidence.v * 8) \div 10),
                  agreement_level |-> IF InList(TextDomain, VisionHints) THEN "medium" ELSE "low",
                  method |-> "fallback_weighted"]
            ELSE IF Len(VisionHints) > 0
            THEN [final_domain |-> VisionHints[1],
                  confidence |-> Num((VisionConfidence.v * 7) \div 10),
                  agreement_level |-> "low",
                  method |-> "fallback_weighted"]
            ELSE [final_domain |-> "general",
                  confidence |-> Num(400),
                  agreement_level |-> "none",
                  method |-> "fallback_weighted"]

\* the weighted vote has chosen the first vision hint
C9_Witness ==
    /\ RouterDone /\ ArbiterFailed
    /\ TextConfidence.num /\ TextConfidence.v <= 600
    /\ Len(VisionHints) > 1
    /\ Decision.method = "fallback_weighted"
    /\ Decision.final_domain = VisionHints[1]

\* the reconciliation stage failed internally: the arbiter failed, its reply
\* lacks a confidence or a domain, or the router agent's execute reported failure
ReplyIncomplete ==
    /\ arbiter.kind = "dict"
    /\ \/ "confidence" \notin DOMAIN arbiter.reply
       \/ "final_domain" \notin DOMAIN arbiter.reply

RouterExecuteFailed ==
    /\ ~TextConfidence.num
    /\ InList(TextDomain, VisionHints) \/ ArbiterFailed

\* C10: after any internal failure of the reconciliation stage the stored
\* decision is the weighted-vote one, and the run goes on to filing.
C10_FailureFallsBackToWeightedVote ==
    /\ (RouterDone /\ (ArbiterFailed \/ ReplyIncomplete \/ RouterExecuteFailed)) =>
            Get(Decision, "method", "") = "fallback_weighted"
    /\ (pc = "returned" /\ RouterDone) => runs["file_organization"] = 1

\* the keyword fallback has returned
KeywordReturned == output.kind = "keyword"

\* the sum of f over the entries of a list
RECURSIVE SumOver(_, _)
SumOver(f(_), l) == IF Len(l) = 0 THEN 0 ELSE f(Head(l)) + SumOver(f, Tail(l))

\* C11: the reconciler raises nothing to the orchestrator (no decision record
\* is an error record), and once the router stage has run the stored decision
\* carries a method tag among quick_agreement, arbitrated, fallback_weighted.
C11_DecisionCarriesMethodTag ==
    RouterDone =>
        /\ "error" \notin DOMAIN Decision
        /\ Get(Decision, "method", "") \in {"quick_agreement", "arbitrated", "fallback_weighted"}

\* C12 as stated: in the keyword fallback the score of a domain is the total
\* number of occurrences of the domain's keywords in the lower-cased text, a
\* keyword that occurs k times contributing k.
C12_ScoreCountsOccurrences ==
    KeywordReturned =>
        \A text_lower \in {ToLower(input.text)}, domain_scores \in {DomainScores(input.text)} :
            \A d \in SeqToSet(CatalogDomains) :
                domain_scores[d] =
                    SumOver(LAMBDA kw : Occurrences(kw, text_lower), DomainKeywords[d])

\* C12: in the keyword fallback the score of a domain is the number of the
\* domain's keyword entries that occur, case-insensitively, in the text: a
\* keyword contributes 1 if it occurs at all, however often it occurs, and
\* the record quotes the winning domain's score.
C12_ScoreCountsKeywordsPresent ==
    KeywordReturned =>
        \A text_lower \in {ToLower(input.text)}, domain_scores \in {DomainScores(input.text)} :
            LET Present(kw) == Min(Occurrences(kw, text_lower), 1)
            IN  /\ \A d \in SeqToSet(CatalogDomains) :
                      domain_scores[d] = SumOver(Present, DomainKeywords[d])
                /\ output.result.primary_domain # "general" =>
                      output.result.reasoning =
                          SumOver(Present, DomainKeywords[output.result.primary_domain])

\* the fallback has classified a text in which a keyword occurs twice
C12_Witness ==
    /\ KeywordReturned
    /\ input.text = "Stock Stock"
    /\ Occurrences("stock", ToLower(input.text)) = 2
    /\ output.result.primary_domain = "finance"
    /\ output.result.reasoning = 1

\* C13: the keyword fallback returns, when the top score is 0: general, 0.3,
\* no keywords, no alternatives, method keyword_fallback; otherwise a
\* top-scoring domain, the confidence min(top score / sum of scores, 0.85),
\* as alternatives the domains ranked 2nd and 3rd by score, and as keywords
\* the first ten at most of the winning domain's keywords that occur in the
\* text, in the order of the catalog.
C13_KeywordFallbackRecord ==
    KeywordReturned =>
        \A text_lower \in {ToLower(input.text)}, domain_scores \in {DomainScores(input.text)} :
            LET r == output.result
                domains == SeqToSet(CatalogDomains)
                top == CHOOSE n \in {domain_scores[d] : d \in domains} :
                           \A d \in domains : domain_scores[d] <= n
                total == SumOver(LAMBDA d : domain_scores[d], CatalogDomains)
                occurring == SelectSeq(DomainKeywords[r.primary_domain],
                                       LAMBDA kw : Occurrences(kw, text_lower) > 0)
            IN  /\ r.method = "keyword_fallback"
                /\ DOMAIN r = {"primary_domain", "confidence", "reasoning", "keywords",
                               "alternative_domains", "method"}
                /\ top = 0 =>
                      /\ r.primary_domain = "general"
                      /\ r.confidence = Num(300)
                      /\ r.keywords = <<>>
                      /\ r.alternative_domains = <<>>
                /\ top > 0 =>
                      /\ r.primary_domain \in domains
                      /\ domain_scores[r.primary_domain] = top
                      /\ r.confidence = Num(Min((top * One) \div total, 850))
                      /\ Len(r.alternative_domains) = 2
                      /\ Cardinality({r.primary_domain, r.alternative_domains[1],
                                      r.alternative_domains[2]}) = 3
                      /\ domain_scores[r.alternative_domains[1]] >= domain_scores[r.alternative_domains[2]]
                      /\ \A d \in domains \ {r.primary_domain, r.alternative_domains[1]} :
                            domain_scores[d] <= domain_scores[r.alternative_domains[2]]
                      /\ Len(r.keywords) <= 10
                      /\ r.keywords = Prefix(occurring, 10)

\* the fallback has classified the text of three healthcare keywords
C13_Witness ==
    /\ KeywordReturned
    /\ input.text = "the patient was given a clinical diagnosis"
    /\ output.result.primary_domain = "healthcare"
    /\ output.result.keywords = <<"patient", "diagnosis", "clinical">>
    /\ output.result.confidence = Num(850)

\* the text classifier has returned
TextReturned == output.kind = "text"

\* C14: the text classifier raises nothing and returns a result record: for
\* an empty text or one of trimmed length below 50 the LLM is not invoked and
\* the keyword-fallback record is returned; otherwise the LLM is invoked on
\* the first 8000 characters, and if that call raises the keyword-fallback
\* record is returned.
C14_TextClassifierNeverRaises ==
    TextReturned =>
        LET t == input.text_content
            r == output.result
        IN  /\ r.success
            /\ {"primary_domain", "confidence", "method"} \subseteq DOMAIN r.result
            /\ (t.len = 0 \/ t.stripped < 50) =>
                  /\ output.chain.kind = "not_called"
                  /\ r.result = KeywordBasedClassification(t)
                  /\ r.result.method = "keyword_fallback"
            /\ (t.len > 0 /\ t.stripped >= 50) =>
                  /\ output.chain.kind = "called"
                  /\ output.chain.sample = (IF t.len <= 8000 THEN t.len ELSE 8000)
                  /\ input.backend.kind = "raise" =>
                        /\ r.result = KeywordBasedClassification(t)
                        /\ r.result.method = "keyword_fallback"

\* the classifier was handed a text of more than 8000 characters, its LLM call
\* raised, and it returned the keyword-fallback record
C14_Witness ==
    /\ TextReturned
    /\ input.text_content.len > 8000
    /\ input.backend.kind = "raise"
    /\ output.chain = [kind |-> "called", sample |-> 8000]
    /\ output.result.success
    /\ output.result.result.method = "keyword_fallback"
    /\ output.result.result.primary_domain = "finance"

\* the vision node has returned
VisionReturned == output.kind = "vision"

\* the vision record the node hands to the state
VisionOutput == output.update.vision_analysis

\* C15: the vision stage raises nothing and stores a result record: with no
\* image it returns the zero-confidence placeholder without a backend call,
\* with images it calls the backend for the first image only, and after a
\* vision failure the stored record has confidence 0.0, no hints and the error.
C15_VisionNeverRaises ==
    VisionReturned =>
        /\ "vision_analysis" \in DOMAIN output.update
        /\ {"visual_domain_hints", "confidence"} \subseteq DOMAIN VisionOutput
        /\ input.preview_images = 0 =>
              /\ output.calls = <<>>
              /\ VisionOutput = [visual_domain_hints |-> <<>>, confidence |-> Num(0)]
        /\ input.preview_images > 0 =>
              /\ output.calls = <<1>>
              /\ input.backend.kind = "raise" =>
                    /\ VisionOutput.confidence = Num(0)
                    /\ VisionOutput.visual_domain_hints = <<>>
                    /\ "error" \in DOMAIN VisionOutput
              /\ input.backend.kind = "reply" => "error" \notin DOMAIN VisionOutput

\* the node was handed two images, the backend call for the first one raised,
\* and the degraded record was stored
C15_Witness ==
    /\ VisionReturned
    /\ input.preview_images = 2
    /\ input.backend.kind = "raise"
    /\ output.calls = <<1>>
    /\ VisionOutput.confidence = Num(0)
    /\ "error" \in DOMAIN VisionOutput

\* the vision reply has been parsed into the record
VisionParsed == VisionReturned /\ input.preview_images > 0 /\ input.backend.kind = "reply"

\* index of a domain in domains_map
VisionIndex(d) == CHOOSE i \in 1..Len(VisionDomains) : VisionDomains[i] = d

\* the hints of the record are the first three at most of the domains hit, in
\* the order of domains_map
HintsInOrder ==
    LET hints == VisionOutput.visual_domain_hints
        hits == input.backend.hits
    IN  /\ Len(hints) = Min(Cardinality(hits), 3)
        /\ SeqToSet(hints) \subseteq hits
        /\ \A i, j \in 1..Len(hints) : i < j => VisionIndex(hints[i]) < VisionIndex(hints[j])
        /\ \A d \in hits \ SeqToSet(hints) :
              \A i \in 1..Len(hints) : VisionIndex(hints[i]) < VisionIndex(d)

\* C16 as stated: the parsed record holds at most 3 hints in the order of the
\* enumeration, and its confidence is min(0.25 x n, 1.0) for n the number of
\* domain hits in the record.
C16_ConfidenceFromHintsOfRecord ==
    VisionParsed =>
        /\ HintsInOrder
        /\ VisionOutput.confidence =
              Num(Min(250 * Len(VisionOutput.visual_domain_hints), One))

\* C16: the parsed record holds at most 3 hints in the order of the
\* enumeration, and its confidence is min(0.25 x n, 1.0) for n the number of
\* domains hit in the reply, counted before the hints are cut to three.
C16_ConfidenceFromDomainsHit ==
    VisionParsed =>
        /\ HintsInOrder
        /\ VisionOutput.confidence = Num(Min(250 * Cardinality(input.backend.hits), One))

\* a reply that hits four domains has been parsed: three hints, confidence 1.0
C16_Witness ==
    /\ VisionParsed
    /\ Cardinality(input.backend.hits) = 4
    /\ VisionOutput.visual_domain_hints = <<"finance", "law", "science">>
    /\ VisionOutput.confidence = Num(One)

\* the placements the server has reported as successful
Placed == {c \in Clients : req[c].pc = "done" /\ req[c].success}

\* the k-th suffixed name of a request
SuffixedName(c, k) == Suffixed(Stem(req[c].filename), k, Suffix(req[c].filename))

\* C17: every successful placement into the folder returns a destination that
\* did not exist before it: the requested name if it was free, otherwise
\* base_k.ext for the smallest free k >= 1; two placements have distinct
\* destinations, the later one of the same filename bearing a suffix; no file
\* is overwritten; and a copied source stays in place unchanged.
C17_PlacementsNeverCollide ==
    /\ \A n \in DOMAIN folder : folder[n] = 0 \/ (folder[n] \in Placed /\ req[folder[n]].destination = n)
    /\ \A c \in Placed :
          /\ req[c].destination \notin req[c].before
          /\ req[c].destination \in DOMAIN folder
          /\ folder[req[c].destination] = c
          /\ req[c].filename \notin req[c].before => req[c].destination = req[c].filename
          /\ req[c].filename \in req[c].before =>
                \E k \in 1..(Cardinality(req[c].before) + 1) :
                    /\ req[c].destination = SuffixedName(c, k)
                    /\ \A j \in 1..(k - 1) : SuffixedName(c, j) \in req[c].before
          /\ req[c].operation = "copy" => (c \in DOMAIN uploads /\ uploads[c] = c)
          /\ \A d \in Placed \ {c} :
                /\ req[d].destination # req[c].destination
                /\ (req[d].filename = req[c].filename /\ req[c].destination \in req[d].before) =>
                      req[d].destination # req[d].filename

\* the same filename has been copied twice into a folder that held
\* report.pdf and report_2.pdf: the copies are report_1.pdf and report_3.pdf
C17_Witness ==
    /\ Placed = Clients
    /\ \A c \in Clients : req[c].filename = "report.pdf" /\ req[c].operation = "copy"
    /\ {req[c].destination : c \in Clients} = {"report_1.pdf", "report_3.pdf"}
    /\ DOMAIN folder = {"report.pdf", "report_1.pdf", "report_2.pdf", "report_3.pdf"}
    /\ folder["report.pdf"] = 0 /\ folder["report_2.pdf"] = 0

\* the requests of c and d were in flight at the same time
Concurrent(c, d) == d \in req[c].pending \/ c \in req[d].pending

ResultKeys ==
    {"success", "filename", "domain", "confidence", "output_path", "final_decision", "messages"}

\* C19: every run of process_document terminates: it returns a result object
\* in one of the terminal stages completed, organization_failed, failed,
\* whatever the stages did; the router has run when both branches have; and
\* no stage runs twice.
C19_EveryRunTerminates ==
    /\ <>(pc = "returned")
    /\ [](pc = "returned" =>
            /\ Stage \in {"completed", "organization_failed", "failed"}
            /\ ResultKeys \subseteq DOMAIN result)
    /\ [](pc = "returned" =>
            (runs["vision_analysis"] = 1 /\ runs["text_classification"] = 1
                => runs["domain_router"] = 1))
    /\ [](\A n \in Nodes : runs[n] <= 1)

\* a run on a missing file has returned, in organization_failed, after every
\* stage has run once
C19_Witness ==
    /\ pc = "returned"
    /\ ~fileExists
    /\ Stage = "organization_failed"
    /\ \A n \in Nodes : runs[n] = 1
    /\ ResultKeys \subseteq DOMAIN result
    /\ ~result.success

\* C21: final_domain is set in the state exactly when the router stage has run
\* and the engine has merged its update: it is unset while the router has not
\* run, set after each of the router's paths, and file organization is never
\* scheduled on a state without it.
C21_FinalDomainIffRouterRan ==
    /\ ("final_domain" \in DOMAIN state) <=>
          (runs["domain_router"] = 1 /\ "domain_router" \notin DOMAIN writes)
    /\ runs["domain_router"] = 0 => "final_domain" \notin DOMAIN state
    /\ "domain_router" \in DOMAIN writes => "final_domain" \in DOMAIN writes["domain_router"]
    /\ ("file_organization" \in active \/ runs["file_organization"] > 0) =>
          "final_domain" \in DOMAIN state

\* file organization is scheduled after the router took its failure path: the
\* domain is the one of the text record
C21_Witness ==
    /\ "file_organization" \in active
    /\ runs["domain_router"] = 1
    /\ "error" \in DOMAIN state.final_decision
    /\ state.confidence = Num(500)
    /\ state.final_domain = TextDomain

\* a stage has begun: it is scheduled or has run
Begun(n) == n \in active \/ runs[n] > 0

\* a stage has completed: it has run and the engine has merged its update
Completed(n) == runs[n] > 0 /\ n \notin active /\ n \notin DOMAIN writes

\* C22: in every run each of the five stages executes at most once and in
\* topological order: intake has completed when vision or text begins, vision
\* and text have both completed when the router begins, and the router has
\* completed when file organization begins.
C22_StagesOnceInOrder ==
    /\ \A n \in Nodes \ {"error_handler"} : runs[n] <= 1
    /\ (Begun("vision_analysis") \/ Begun("text_classification")) => Completed("intake")
    /\ Begun("domain_router") =>
          Completed("vision_analysis") /\ Completed("text_classification")
    /\ Begun("file_organization") => Completed("domain_router")

\* a run has returned in stage completed after each of the five stages ran once
C22_Witness ==
    /\ pc = "returned"
    /\ Stage = "completed"
    /\ \A n \in Nodes \ {"error_handler"} : runs[n] = 1 /\ Completed(n)
    /\ runs["error_handler"] = 0

\* the fields a node's pending update writes
Written(n) == IF n \in DOMAIN writes THEN DOMAIN writes[n] ELSE {}

\* the merge of the pending updates leaves a field of the state as it is
Kept(k) ==
    \A st \in {MergeUpdates(state, writes, 1)} :
        k \in DOMAIN state => (k \in DOMAIN st /\ st[k] = state[k])

\* the analysis and decision results of a run
ResultFields ==
    {"vision_analysis", "text_analysis", "final_decision", "final_domain", "confidence"}

\* the file organization node has handed in a failure
FilingFailed ==
    /\ "file_organization" \in DOMAIN writes
    /\ writes["file_organization"].processing_stage = "organization_failed"

\* C23 as stated: the vision node writes only vision_analysis and the text
\* node only text_analysis, each with messages; the router writes only
\* final_decision, final_domain and confidence; file organization writes only
\* organization_result, output_path, processing_stage and error; no stage
\* writes file_path or filename; a filing failure leaves the vision, text and
\* decision results as computed.
C23_StagesWriteOwnFieldsOnly ==
    /\ Written("vision_analysis") \subseteq {"vision_analysis", "messages"}
    /\ Written("text_classification") \subseteq {"text_analysis", "messages"}
    /\ Written("domain_router") \subseteq {"final_decision", "final_domain", "confidence"}
    /\ Written("file_organization") \subseteq
          {"organization_result", "output_path", "processing_stage", "error"}
    /\ \A n \in Nodes : Written(n) \cap {"file_path", "filename"} = {}
    /\ FilingFailed => \A k \in ResultFields : Kept(k)

\* C23, amended: as above, with the router and file organization appending to
\* messages as the vision and text nodes do.
C23_StagesWriteOwnFieldsAndMessages ==
    /\ Written("vision_analysis") \subseteq {"vision_analysis", "messages"}
    /\ Written("text_classification") \subseteq {"text_analysis", "messages"}
    /\ Written("domain_router") \subseteq
          {"final_decision", "final_domain", "confidence", "messages"}
    /\ Written("file_organization") \subseteq
          {"organization_result", "output_path", "processing_stage", "error", "messages"}
    /\ \A n \in Nodes : Written(n) \cap {"file_path", "filename"} = {}
    /\ FilingFailed => \A k \in ResultFields \cup {"file_path", "filename"} : Kept(k)

\* the filing of a missing file has failed after the router decided
C23_Witness ==
    /\ FilingFailed
    /\ ~fileExists
    /\ ResultFields \subseteq DOMAIN state
    /\ "error" \in Written("file_organization")
    /\ "messages" \notin Written("file_organization")

\* the decisions of the run: the one stored in the state and the one the
\* router node has handed in
Decisions ==
    {Decision} \cup
    (IF "domain_router" \in DOMAIN writes /\ "final_decision" \in DOMAIN writes["domain_router"]
     THEN {writes["domain_router"].final_decision} ELSE {})

\* C24: the reconciler applies its tiers in order: the arbiter is invoked in a
\* run only if the quick-agreement test is false, and a decision tagged
\* fallback_weighted is produced only in a run where the arbiter was invoked
\* and failed, never where it returned normally or where quick agreement
\* applied.
C24_TiersInStrictOrder ==
    /\ arbiter # NotCalled =>
          /\ ~QuickCondition
          /\ QuickAgreement(VisionRecord, TextRecord) = "no"
    /\ \A d \in Decisions :
          Get(d, "method", "") = "fallback_weighted" =>
              /\ ArbiterFailed
              /\ arbiter.kind # "dict"
              /\ ~QuickCondition
    /\ \A d \in Decisions :
          Get(d, "method", "") = "quick_agreement" => arbiter = NotCalled

\* the arbiter's reply was no JSON object and the stored decision is the
\* weighted vote for the text domain, which is among the vision hints
C24_Witness ==
    /\ RouterDone
    /\ arbiter.kind = "not_dict"
    /\ Get(Decision, "method", "") = "fallback_weighted"
    /\ Decision.agreement_level = "medium"
    /\ InList(TextDomain, VisionHints)

\* domain e ranks before domain d: its score is higher, or equal with e
\* declared earlier in the catalog
RanksBefore(score, e, d) ==
    \/ score[e] > score[d]
    \/ score[e] = score[d] /\ CatalogIndex(e) < CatalogIndex(d)

\* C25: in the keyword fallback, domains with equal scores are ranked in the
\* catalog's declaration order: the primary domain is the earliest declared of
\* the domains sharing the top score, the alternatives follow it in rank, and
\* every other domain ranks behind them.
C25_TiesInDeclarationOrder ==
    KeywordReturned =>
        \A score \in {DomainScores(input.text)} :
            (\E d \in DOMAIN score : score[d] > 0) =>
                LET ranking == <<output.result.primary_domain>> \o output.result.alternative_domains
                IN  /\ CatalogDomains =
                          <<"finance", "law", "science", "technology", "healthcare",
                            "education", "business", "engineering", "arts">>
                    /\ Len(ranking) = 3
                    /\ \A d \in DOMAIN score :
                          score[d] = score[ranking[1]] =>
                              CatalogIndex(ranking[1]) <= CatalogIndex(d)
                    /\ \A i, j \in 1..3 : i < j => RanksBefore(score, ranking[i], ranking[j])
                    /\ \A d \in DOMAIN score \ SeqToSet(ranking) :
                          RanksBefore(score, ranking[3], d)

\* four domains share the top score of one: the first declared is primary and
\* the next two are the alternatives
C25_Witness ==
    /\ KeywordReturned
    /\ input.text = "database design"
    /\ \A score \in {DomainScores(input.text)} :
          {d \in DOMAIN score : score[d] = 1} = {"science", "technology", "engineering", "arts"}
    /\ output.result.primary_domain = "science"
    /\ output.result.alternative_domains = <<"technology", "engineering">>

\* the tasks of a document that are queued or running
InFlight(d) ==
    Cardinality({i \in 1..Len(queue) : queue[i] = d})
    + Cardinality({w \in Workers : worker[w].pc = "running" /\ worker[w].doc = d})

\* C26: the retry endpoint re-queues a document only when its status is
\* FAILED: a retry request for a document that is PENDING, PROCESSING or
\* COMPLETED neither resets its status nor queues a task.
C26_RetryOnlyWhenFailed ==
    [][\A d \in DOMAIN docs :
          (PostRetry(d) /\ docs[d].status # "failed") =>
              /\ docs'[d].status = docs[d].status
              /\ queue' = queue]_vars

\* C27: under every interleaving of /process requests with the workers, a
\* document (one no retry was requested for) has at most one task in flight,
\* queued or running.
C27_AtMostOneTaskInFlight ==
    \A d \in DOMAIN docs : docs[d].retry_count = 0 => InFlight(d) <= 1

\* C28: when process_document_task returns for an existing document, the
\* document's status is COMPLETED if the workflow returned success=true and
\* FAILED otherwise, whatever domain tag the workflow returned.
C28_StatusFollowsWorkflowSuccess ==
    [][\A w \in Workers :
          TaskFinish(w) =>
              docs'[worker[w].doc].status =
                  IF worker'[w].result.success THEN "completed" ELSE "failed"]_vars

\* the batch has been marked COMPLETED
BatchCompleted == Get(batch, "status", "none") = "completed"

\* the status of a row as the other sessions read it
Left(k) == k \in DOMAIN bdocs /\ bdocs[k].status \in {"completed", "failed"}

\* C29: every document record process_batch_task creates eventually leaves
\* PROCESSING, and when the batch is marked COMPLETED each of them is in
\* status COMPLETED or FAILED, the documents whose processing raised inside
\* the per-file loop included.
C29_BatchDocumentsLeaveProcessing ==
    /\ \A k \in 1..MaxFiles : (k \in DOMAIN bdocs) ~> Left(k)
    /\ [](BatchCompleted => \A k \in DOMAIN bdocs : Left(k))

\* a batch of one file is COMPLETED; the file's processing raised on the
\* domain tag, the path is counted as failed and the row is out of PROCESSING
C29_Witness ==
    /\ BatchCompleted
    /\ Len(file_paths) = 1
    /\ batch.failed_documents = 1
    /\ batch.processed_documents = 0
    /\ Left(1)

\* C30: when process_batch_task marks a batch COMPLETED, processed_documents
\* plus failed_documents is the number of file paths given to the task, each
\* path counted exactly once, as processed or as failed.
C30_CountsAddUp ==
    BatchCompleted =>
        /\ batch.processed_documents + batch.failed_documents = Len(file_paths)
        /\ \A k \in DOMAIN file_paths : bt.counted[k] = 1

\* a batch of three paths is COMPLETED with one processed and two failed, the
\* first of them a file that was gone
C30_Witness ==
    /\ BatchCompleted
    /\ Len(file_paths) = 3
    /\ ~file_paths[1]
    /\ batch.processed_documents = 1
    /\ batch.failed_documents = 2
    /\ DOMAIN bdocs = {2, 3}
    /\ bdocs[2].status = "completed" /\ bdocs[3].status = "completed"

====
